---- MODULE Spec2Model ----
(***************************************************************************)
(* Model of SortedArray<T> (yasorted-array): a backing array items_ kept   *)
(* sorted by a three-way comparator fixed at construction.  Every public   *)
(* method is one action; the binary searches, the stable batch sort and    *)
(* the rebuild loops are operators computed the way the code computes      *)
(* them.  Indices are 0-based as in the source: At(s, i) is s[i] of JS.    *)
(***************************************************************************)
EXTENDS Integers, Sequences, FiniteSets, TLC

\* ---------------------------------------------------------------- bounds
MaxLen == 4      \* largest length of items_ explored
MaxKey == 3      \* keys 1..MaxKey are what the comparator looks at
MaxBatch == 3    \* longest argument list of addMultiple
MaxRemove == 2   \* longest argument list of removeMultiple
MaxIndices == 2  \* longest argument list of removeAtIndices

Keys == 1..MaxKey
\* Two elements with the same key and different tags compare equal and can
\* be told apart.  Two tags are enough to see any reordering of ties: colour
\* one displaced element 1 and all the others 0.
Tags == {0, 1}

\* An element of type T: the comparator sees only key, tag makes equal
\* elements distinguishable (the "custom objects" of the tests).
Elements == [key : Keys, tag : Tags]

\* The values searched for and removed by value: the code looks at them
\* through the comparator alone, which reads the key.
Probes == [key : Keys, tag : {0}]

\* Argument lists of the bulk calls
RECURSIVE SeqsUpTo(_, _)
SeqsUpTo(S, n) ==
  IF n = 0 THEN {<<>>}
  ELSE LET shorter == SeqsUpTo(S, n - 1)
       IN shorter \cup {Append(s, x) : s \in {t \in shorter : Len(t) = n - 1}, x \in S}

Min(a, b) == IF a < b THEN a ELSE b
Max(a, b) == IF a > b THEN a ELSE b

\* ------------------------------------------------------------ JS numbers
\* A JS number used as an index argument: an integer n, the fraction
\* n + 0.5, or NaN.
Whole(n) == [kind |-> "int", n |-> n]
Frac(n) == [kind |-> "frac", n |-> n]
NaN == [kind |-> "nan", n |-> 0]

\* the arguments tried for removeAtIndex: -1 .. MaxLen, 1.5 and NaN
IndexInputs == {Whole(n) : n \in -1..MaxLen} \cup {Frac(1), NaN}

\* the arguments tried for removeAtIndices: 0 and 1, and one of each kind
\* that is no index: -1, MaxLen (never below the length), 0.5 and NaN
BulkIndexInputs == {Whole(-1), Whole(0), Whole(1), Whole(MaxLen), Frac(0), NaN}

\* Number.isInteger(x)
isInteger(x) == x.kind = "int"
\* x < 0   (n + 0.5 < 0 iff n < 0; every comparison with NaN is false)
isNegative(x) == x.kind # "nan" /\ x.n < 0
\* x >= len   (n + 0.5 >= len iff n >= len for integer len)
isAtLeast(x, len) == x.kind # "nan" /\ x.n >= len

\* ----------------------------------------------------------------- state
VARIABLES
  items_,       \* the backing array (private readonly items_: T[])
  comparator,   \* the comparator given to the constructor: "asc" or "desc"
  op,           \* the method that has just returned, "ready" between calls
  arg,          \* its argument (a value, an index, or the argument list)
  ret,          \* what it returned
  old,          \* items_ as it was when the method was called
  filtered,     \* the instance a filter call returned, while the caller holds it
  oldFiltered,  \* filtered as it was when the method was called
  iterators,    \* the iterators the caller holds, by the name it gave them
  calls,        \* the calls of the caller's predicate the method made, in order
  loop          \* the loop a method is in when its run is followed step by step

vars ==
  <<items_, comparator, op, arg, ret, old, filtered, oldFiltered, iterators, calls,
    loop>>

\* no method is followed step by step
NoLoop == [method |-> "none", pc |-> "idle"]

\* no instance held
NoInstance == [items_ |-> <<>>, comparator |-> "none", sameArray |-> FALSE]

\* ------------------------------------------------------ array primitives
At(s, i) == s[i + 1]

\* Array.prototype.splice(start, deleteCount, ...ins) for 0 <= start <= length
Splice(s, start, deleteCount, ins) ==
  LET dc == Min(Max(deleteCount, 0), Len(s) - start)
  IN SubSeq(s, 1, start) \o ins \o SubSeq(s, start + dc + 1, Len(s))

\* Array.prototype.reverse
RECURSIVE Reverse(_)
Reverse(s) == IF s = <<>> THEN <<>> ELSE Append(Reverse(Tail(s)), Head(s))

\* this.comparator(a, b): (a, b) => a - b  or  (a, b) => b - a  on the keys
Compare(a, b) == IF comparator = "asc" THEN a.key - b.key ELSE b.key - a.key

\* -------------------------------------------------------- binary searches
RECURSIVE findInsertionLoop(_, _, _, _)
findInsertionLoop(its, value, low, high) ==
  IF low <= high
  THEN LET mid == (low + high) \div 2
           comparison == Compare(At(its, mid), value)
       IN IF comparison < 0 THEN findInsertionLoop(its, value, mid + 1, high)
          ELSE IF comparison > 0 THEN findInsertionLoop(its, value, low, mid - 1)
          ELSE mid
  ELSE low

\* Mutant: the two narrowing branches exchanged.
RECURSIVE findInsertionLoop_swapped(_, _, _, _)
findInsertionLoop_swapped(its, value, low, high) ==
  IF low <= high
  THEN LET mid == (low + high) \div 2
           comparison == Compare(At(its, mid), value)
       IN IF comparison > 0 THEN findInsertionLoop_swapped(its, value, mid + 1, high)
          ELSE IF comparison < 0 THEN findInsertionLoop_swapped(its, value, low, mid - 1)
          ELSE mid
  ELSE low

findInsertionIndex_swapped(its, value) ==
  findInsertionLoop_swapped(its, value, 0, Len(its) - 1)

\* Mutant: an equal element sends the search on to the right (upper bound).
RECURSIVE findInsertionLoop_afterTies(_, _, _, _)
findInsertionLoop_afterTies(its, value, low, high) ==
  IF low <= high
  THEN LET mid == (low + high) \div 2
           comparison == Compare(At(its, mid), value)
       IN IF comparison <= 0 THEN findInsertionLoop_afterTies(its, value, mid + 1, high)
          ELSE findInsertionLoop_afterTies(its, value, low, mid - 1)
  ELSE low

findInsertionIndex_afterTies(its, value) ==
  findInsertionLoop_afterTies(its, value, 0, Len(its) - 1)

findInsertionIndex(its, value) == findInsertionLoop(its, value, 0, Len(its) - 1)

RECURSIVE firstIndexLoop(_, _, _, _)
firstIndexLoop(its, value, low, high) ==
  IF low <= high
  THEN LET mid == (low + high) \div 2
           comparison == Compare(At(its, mid), value)
       IN IF comparison < 0 THEN firstIndexLoop(its, value, mid + 1, high)
          ELSE IF comparison > 0 THEN firstIndexLoop(its, value, low, mid - 1)
          ELSE IF mid = 0 \/ Compare(At(its, mid - 1), value) # 0 THEN mid
          ELSE firstIndexLoop(its, value, low, mid - 1)
  ELSE -1

\* Mutant: returns the match the search lands on, without the walk to the
\* first of the run.
RECURSIVE firstIndexLoop_anyMatch(_, _, _, _)
firstIndexLoop_anyMatch(its, value, low, high) ==
  IF low <= high
  THEN LET mid == (low + high) \div 2
           comparison == Compare(At(its, mid), value)
       IN IF comparison < 0 THEN firstIndexLoop_anyMatch(its, value, mid + 1, high)
          ELSE IF comparison > 0 THEN firstIndexLoop_anyMatch(its, value, low, mid - 1)
          ELSE mid
  ELSE -1

firstIndexOf_anyMatch(its, value) == firstIndexLoop_anyMatch(its, value, 0, Len(its) - 1)

firstIndexOf(its, value) == firstIndexLoop(its, value, 0, Len(its) - 1)

RECURSIVE lastIndexLoop(_, _, _, _)
lastIndexLoop(its, value, low, high) ==
  IF low <= high
  THEN LET mid == (low + high) \div 2
           comparison == Compare(At(its, mid), value)
       IN IF comparison < 0 THEN lastIndexLoop(its, value, mid + 1, high)
          ELSE IF comparison > 0 THEN lastIndexLoop(its, value, low, mid - 1)
          ELSE IF mid = Len(its) - 1 \/ Compare(At(its, mid + 1), value) # 0 THEN mid
          ELSE lastIndexLoop(its, value, mid + 1, high)
  ELSE -1

\* Mutant: inside a run the search goes on to the left, as firstIndexOf does.
RECURSIVE lastIndexLoop_searchesLeft(_, _, _, _)
lastIndexLoop_searchesLeft(its, value, low, high) ==
  IF low <= high
  THEN LET mid == (low + high) \div 2
           comparison == Compare(At(its, mid), value)
       IN IF comparison < 0 THEN lastIndexLoop_searchesLeft(its, value, mid + 1, high)
          ELSE IF comparison > 0 THEN lastIndexLoop_searchesLeft(its, value, low, mid - 1)
          ELSE IF mid = Len(its) - 1 \/ Compare(At(its, mid + 1), value) # 0 THEN mid
          ELSE lastIndexLoop_searchesLeft(its, value, low, mid - 1)
  ELSE -1

lastIndexOf_searchesLeft(its, value) ==
  lastIndexLoop_searchesLeft(its, value, 0, Len(its) - 1)

lastIndexOf(its, value) == lastIndexLoop(its, value, 0, Len(its) - 1)

\* ------------------------------------------------------------------- add
\* add(value): [items |-> the array afterwards, ret |-> the returned index]
\* Mutant: splice(index, 1, value) overwrites the element at index.
add_overwrites(its, value) ==
  LET index == findInsertionIndex(its, value)
  IN [items |-> Splice(its, index, 1, <<value>>), ret |-> index]

\* Mutant: a value that finds equal elements is put behind the last of them.
add_behindTies(its, value) ==
  LET found == findInsertionIndex(its, value)
      index == IF lastIndexOf(its, value) >= 0
                 THEN lastIndexOf(its, value) + 1
                 ELSE found
  IN [items |-> Splice(its, index, 0, <<value>>), ret |-> index]

add(its, value) ==
  LET index == findInsertionIndex(its, value)
  IN [items |-> Splice(its, index, 0, <<value>>), ret |-> index]

\* values.sort(this.comparator): Array.prototype.sort is stable, an element
\* goes behind every element that does not compare greater than it.
\* Mutant: an unstable sort, an element goes in front of its ties.
sortInsert_beforeTies(sorted, v) ==
  LET k == Cardinality({j \in 1..Len(sorted) : Compare(sorted[j], v) < 0})
  IN SubSeq(sorted, 1, k) \o <<v>> \o SubSeq(sorted, k + 1, Len(sorted))

sortInsert(sorted, v) ==
  LET k == Cardinality({j \in 1..Len(sorted) : Compare(sorted[j], v) <= 0})
  IN SubSeq(sorted, 1, k) \o <<v>> \o SubSeq(sorted, k + 1, Len(sorted))

RECURSIVE sort(_)
sort(values) ==
  IF values = <<>> THEN <<>>
  ELSE sortInsert(sort(SubSeq(values, 1, Len(values) - 1)), values[Len(values)])

\* The Map built by map/reduce: insertion index (against the original
\* array) -> the values going there, in the order of the sorted batch.  An
\* empty sequence stands for a key the Map does not have.
\* Mutant: a value whose insertion index is taken already replaces the group
\* instead of joining it.
insertionPoints_overwrites(its, sorted) ==
  [index \in 0..Len(its) |->
     LET group == SelectSeq(sorted, LAMBDA v : findInsertionIndex(its, v) = index)
     IN IF group = <<>> THEN <<>> ELSE <<group[Len(group)]>>]

insertionPoints(its, sorted) ==
  [index \in 0..Len(its) |->
     SelectSeq(sorted, LAMBDA v : findInsertionIndex(its, v) = index)]

\* Mutant: insertedIndices.push(index), the index in the original array.
RECURSIVE rebuildLoop_originalIndex(_, _, _, _, _)
rebuildLoop_originalIndex(its, points, index, newItems, insertedIndices) ==
  IF index <= Len(its)
  THEN LET toBeInserted == points[index]
           pushedIndices == [j \in 1..Len(toBeInserted) |-> index]
           withInserted == newItems \o toBeInserted
           withOriginal == IF index < Len(its)
                           THEN Append(withInserted, At(its, index))
                           ELSE withInserted
       IN rebuildLoop_originalIndex(its, points, index + 1, withOriginal,
                                    insertedIndices \o pushedIndices)
  ELSE [items |-> Splice(its, 0, Len(its), newItems), ret |-> insertedIndices]

\* for (index = 0; index <= originalLength; index += 1) { ... }
RECURSIVE rebuildLoop(_, _, _, _, _)
rebuildLoop(its, points, index, newItems, insertedIndices) ==
  IF index <= Len(its)
  THEN LET toBeInserted == points[index]
           pushedIndices == [j \in 1..Len(toBeInserted) |-> Len(newItems) + j - 1]
           withInserted == newItems \o toBeInserted
           withOriginal == IF index < Len(its)
                           THEN Append(withInserted, At(its, index))
                           ELSE withInserted
       IN rebuildLoop(its, points, index + 1, withOriginal,
                      insertedIndices \o pushedIndices)
  ELSE [items |-> Splice(its, 0, Len(its), newItems), ret |-> insertedIndices]

\* Mutant: every insertion index is computed against the array as the
\* values before it in the sorted batch have left it.
RECURSIVE addEach(_, _, _, _)
addEach(its, sorted, k, insertedIndices) ==
  IF k > Len(sorted) THEN [items |-> its, ret |-> insertedIndices]
  ELSE LET one == add(its, sorted[k])
       IN addEach(one.items, sorted, k + 1, Append(insertedIndices, one.ret))

addMultiple_oneByOne(its, values) == addEach(its, sort(values), 1, <<>>)

\* Mutant: the batch is not sorted before the insertion points are grouped.
addMultiple_unsortedBatch(its, values) ==
  IF Len(values) = 0 THEN [items |-> its, ret |-> <<>>]
  ELSE rebuildLoop(its, insertionPoints(its, values), 0, <<>>, <<>>)

addMultiple(its, values) ==
  IF Len(values) = 0 THEN [items |-> its, ret |-> <<>>]
  ELSE rebuildLoop(its, insertionPoints(its, sort(values)), 0, <<>>, <<>>)

\* ---------------------------------------------------------------- remove
\* Mutant: no Number.isInteger test; splice truncates a fractional index
\* (and takes NaN for 0); the whole part of the argument is returned.
removeAtIndex_truncates(its, index) ==
  IF isNegative(index) \/ isAtLeast(index, Len(its))
  THEN [items |-> its, ret |-> -1]
  ELSE [items |-> Splice(its, index.n, 1, <<>>), ret |-> index.n]

\* Mutant: no index < 0 test; splice counts a negative start from the end.
removeAtIndex_noNegativeTest(its, index) ==
  IF ~isInteger(index) \/ isAtLeast(index, Len(its))
  THEN [items |-> its, ret |-> -1]
  ELSE LET start == IF index.n < 0 THEN Max(Len(its) + index.n, 0) ELSE index.n
       IN [items |-> Splice(its, start, 1, <<>>), ret |-> index.n]

removeAtIndex(its, index) ==
  IF ~isInteger(index) \/ isNegative(index) \/ isAtLeast(index, Len(its))
  THEN [items |-> its, ret |-> -1]
  ELSE [items |-> Splice(its, index.n, 1, <<>>), ret |-> index.n]

\* Mutant: the removed positions are returned as collected, not reversed.
removeAtIndices_notReversed(its, indices) ==
  LET indicesSet == {indices[k] : k \in 1..Len(indices)}
      has(subindex) == Whole(subindex) \in indicesSet
      positions == [i \in 1..Len(its) |-> i - 1]
      removeIndices == SelectSeq(positions, LAMBDA subindex : has(subindex))
      kept == SelectSeq(positions, LAMBDA subindex : ~has(subindex))
      newItems == [k \in 1..Len(kept) |-> At(its, kept[k])]
  IN [items |-> Splice(its, 0, Len(its), newItems), ret |-> removeIndices]

\* indices is the argument list (JS numbers); indicesSet.has(subindex) holds
\* only for an argument that is the integer subindex.
removeAtIndices(its, indices) ==
  LET indicesSet == {indices[k] : k \in 1..Len(indices)}
      has(subindex) == Whole(subindex) \in indicesSet
      positions == [i \in 1..Len(its) |-> i - 1]
      removeIndices == SelectSeq(positions, LAMBDA subindex : has(subindex))
      kept == SelectSeq(positions, LAMBDA subindex : ~has(subindex))
      newItems == [k \in 1..Len(kept) |-> At(its, kept[k])]
  IN [items |-> Splice(its, 0, Len(its), newItems), ret |-> Reverse(removeIndices)]

\* Mutant: removeFirst looks the value up with lastIndexOf.
removeFirst_usesLastIndexOf(its, value) ==
  removeAtIndex(its, Whole(lastIndexOf(its, value)))

removeFirst(its, value) == removeAtIndex(its, Whole(firstIndexOf(its, value)))

removeLast(its, value) == removeAtIndex(its, Whole(lastIndexOf(its, value)))

\* for (subindex = from; subindex < length; subindex += 1)
\*   { if (subindex > from && comparator(value, items_[subindex]) !== 0) break; push }
RECURSIVE markRun(_, _, _, _, _)
markRun(its, value, from, subindex, marked) ==
  IF subindex < Len(its)
  THEN IF subindex > from /\ Compare(value, At(its, subindex)) # 0
       THEN marked
       ELSE markRun(its, value, from, subindex + 1, Append(marked, subindex))
  ELSE marked

\* Mutant: the marked indices are returned as collected, not reversed.
removeAll_notReversed(its, value) ==
  LET firstIndex == firstIndexOf(its, value)
  IN IF firstIndex = -1 THEN [items |-> its, ret |-> <<>>]
     ELSE LET removeIndices == markRun(its, value, firstIndex, firstIndex, <<>>)
              count == Len(removeIndices)
          IN [items |-> Splice(its, firstIndex, count, <<>>),
              ret |-> removeIndices]

removeAll(its, value) ==
  LET firstIndex == firstIndexOf(its, value)
  IN IF firstIndex = -1 THEN [items |-> its, ret |-> <<>>]
     ELSE LET removeIndices == markRun(its, value, firstIndex, firstIndex, <<>>)
              count == Len(removeIndices)
          IN [items |-> Splice(its, firstIndex, count, <<>>),
              ret |-> Reverse(removeIndices)]

\* Mutant: only the first occurrence of each value is marked.
RECURSIVE collectRuns_firstOnly(_, _, _, _)
collectRuns_firstOnly(its, values, k, removeIndices) ==
  IF k <= Len(values)
  THEN LET value == values[k]
           index == firstIndexOf(its, value)
       IN IF index # -1
          THEN collectRuns_firstOnly(its, values, k + 1, Append(removeIndices, index))
          ELSE collectRuns_firstOnly(its, values, k + 1, removeIndices)
  ELSE removeIndices

\* Mutant: the marking loop stops one short of the end of the array, so the
\* last element is never marked.
RECURSIVE collectRuns_missesLast(_, _, _, _)
collectRuns_missesLast(its, values, k, removeIndices) ==
  IF k <= Len(values)
  THEN LET value == values[k]
           index == firstIndexOf(its, value)
       IN IF index # -1
          THEN collectRuns_missesLast(its, values, k + 1,
                 removeIndices
                   \o SelectSeq(markRun(its, value, index, index, <<>>),
                                LAMBDA subindex : subindex < Len(its) - 1))
          ELSE collectRuns_missesLast(its, values, k + 1, removeIndices)
  ELSE removeIndices

\* for (const value of values) { ... removeIndices.push(subindex) ... }
RECURSIVE collectRuns(_, _, _, _)
collectRuns(its, values, k, removeIndices) ==
  IF k <= Len(values)
  THEN LET value == values[k]
           index == firstIndexOf(its, value)
       IN IF index # -1
          THEN collectRuns(its, values, k + 1,
                           removeIndices \o markRun(its, value, index, index, <<>>))
          ELSE collectRuns(its, values, k + 1, removeIndices)
  ELSE removeIndices

\* Mutant: one splice per value (removeAll for each value in turn), so the
\* indices of later values are those after the earlier removals.
RECURSIVE removeEach(_, _, _, _)
removeEach(its, values, k, removed) ==
  IF k <= Len(values)
  THEN LET r == removeAll(its, values[k])
       IN removeEach(r.items, values, k + 1, r.ret \o removed)
  ELSE [items |-> its, ret |-> removed]

removeMultiple_splicePerValue(its, values) ==
  IF Len(values) = 0 THEN [items |-> its, ret |-> <<>>]
  ELSE removeEach(its, values, 1, <<>>)

\* Mutant: a call without arguments is taken to mean "remove everything".
removeMultiple_emptyRemovesAll(its, values) ==
  IF Len(values) = 0 THEN [items |-> <<>>, ret |-> <<>>]
  ELSE LET removeIndices == collectRuns(its, values, 1, <<>>)
       IN removeAtIndices(its, [k \in 1..Len(removeIndices) |-> Whole(removeIndices[k])])

removeMultiple(its, values) ==
  IF Len(values) = 0 THEN [items |-> its, ret |-> <<>>]
  ELSE LET removeIndices == collectRuns(its, values, 1, <<>>)
       IN removeAtIndices(its, [k \in 1..Len(removeIndices) |-> Whole(removeIndices[k])])

\* Mutant: the first element is left in the array.
clear_keepsFirst(its) == [items |-> SubSeq(its, 1, Min(1, Len(its))), ret |-> <<>>]

\* this.items_.length = 0
clear(its) == [items |-> <<>>, ret |-> <<>>]

\* ------------------------------------------------------------ predicates
\* The caller's predicate(value, index, obj): tests of the value (its key,
\* its tag), of the index, and of the index against the array it is handed.
Predicates ==
  {[kind |-> "keyIs", k |-> k] : k \in Keys}
    \cup {[kind |-> "tagIs", k |-> 1], [kind |-> "oddIndex", k |-> 0],
          [kind |-> "lastOfObj", k |-> 0], [kind |-> "all", k |-> 0],
          [kind |-> "none", k |-> 0]}

Applies(predicate, value, index, obj) ==
  CASE predicate.kind = "keyIs" -> value.key = predicate.k
    [] predicate.kind = "tagIs" -> value.tag = predicate.k
    [] predicate.kind = "oddIndex" -> index % 2 = 1
    [] predicate.kind = "lastOfObj" -> index = Len(obj) - 1
    [] predicate.kind = "all" -> TRUE
    [] predicate.kind = "none" -> FALSE

\* Mutant: the predicate is handed the index the element gets in the result.
RECURSIVE arrayFilter_resultIndex(_, _, _, _)
arrayFilter_resultIndex(its, predicate, index, acc) ==
  IF index < Len(its)
  THEN LET call == [value |-> At(its, index), index |-> Len(acc.out), obj |-> its]
       IN arrayFilter_resultIndex(its, predicate, index + 1,
            [out |-> IF Applies(predicate, call.value, call.index, call.obj)
                       THEN Append(acc.out, At(its, index)) ELSE acc.out,
             calls |-> Append(acc.calls, call)])
  ELSE acc

\* Array.prototype.filter: the elements the predicate holds for, in index
\* order. acc.out collects the elements kept so far, acc.calls the calls of
\* the predicate made so far.
RECURSIVE arrayFilter(_, _, _, _)
arrayFilter(its, predicate, index, acc) ==
  IF index < Len(its)
  THEN LET call == [value |-> At(its, index), index |-> index, obj |-> its]
       IN arrayFilter(its, predicate, index + 1,
            [out |-> IF Applies(predicate, call.value, call.index, call.obj)
                       THEN Append(acc.out, At(its, index)) ELSE acc.out,
             calls |-> Append(acc.calls, call)])
  ELSE acc

NoCalls == [out |-> <<>>, calls |-> <<>>]

\* Mutant: when every element matches, the instance returned works on the
\* array of this one.
filter_sharesWhenAllMatch(its, predicate) ==
  LET matching == arrayFilter(its, predicate, 0, NoCalls).out
  IN [items |-> its,
      ret |-> [items_ |-> matching, comparator |-> comparator,
               sameArray |-> (matching = its)]]

\* Mutant: the source keeps only the matching elements as well.
filter_inPlace(its, predicate) ==
  LET matching == arrayFilter(its, predicate, 0, NoCalls).out
  IN [items |-> matching,
      ret |-> [items_ |-> matching, comparator |-> comparator, sameArray |-> FALSE]]

\* filter(predicate): the instance returned has the comparator of this one
\* and an items_ array of its own (a new [] the matching elements are
\* pushed to); sameArray says whether its items_ is the array of this one.
filter(its, predicate) ==
  LET filtering == arrayFilter(its, predicate, 0, NoCalls)
  IN [items |-> its,
      ret |-> [items_ |-> <<>> \o filtering.out,
               comparator |-> comparator,
               sameArray |-> FALSE],
      calls |-> filtering.calls]

\* Array.prototype.findIndex
RECURSIVE arrayFindIndex(_, _, _)
arrayFindIndex(its, predicate, index) ==
  IF index < Len(its)
  THEN IF Applies(predicate, At(its, index), index, its) THEN index
       ELSE arrayFindIndex(its, predicate, index + 1)
  ELSE -1

findIndex(its, predicate) == [items |-> its, ret |-> arrayFindIndex(its, predicate, 0)]

\* for (index = length - 1; index >= 0; index -= 1) { if (predicate(...)) return index }
RECURSIVE findLastLoop(_, _, _)
findLastLoop(its, predicate, index) ==
  IF index >= 0
  THEN IF Applies(predicate, At(its, index), index, its) THEN index
       ELSE findLastLoop(its, predicate, index - 1)
  ELSE -1

\* Mutant: the loop starts one element short of the end.
findLastIndex_startsShort(its, predicate) ==
  [items |-> its, ret |-> findLastLoop(its, predicate, Len(its) - 2)]

findLastIndex(its, predicate) ==
  [items |-> its, ret |-> findLastLoop(its, predicate, Len(its) - 1)]

\* for (index = 0; index < length; index += 1) { if (predicate(...)) indices.push(index) }
RECURSIVE findIndicesLoop(_, _, _, _)
findIndicesLoop(its, predicate, index, indices) ==
  IF index < Len(its)
  THEN findIndicesLoop(its, predicate, index + 1,
                       IF Applies(predicate, At(its, index), index, its)
                       THEN Append(indices, index) ELSE indices)
  ELSE indices

findIndices(its, predicate) ==
  [items |-> its, ret |-> findIndicesLoop(its, predicate, 0, <<>>)]

\* ------------------------------------------------------- positional read
\* what reading a missing property gives
Undefined == [kind |-> "undefined"]

\* A string is the sequence of its characters.
DigitChars == <<"0", "1", "2", "3", "4", "5", "6", "7", "8", "9">>

RECURSIVE Decimal(_)
Decimal(n) ==
  IF n < 10 THEN <<DigitChars[n + 1]>>
  ELSE Decimal(n \div 10) \o <<DigitChars[(n % 10) + 1]>>

\* the property key a number used in brackets is turned into
NumberToString(x) ==
  CASE x.kind = "nan" -> <<"N", "a", "N">>
    [] x.kind = "int" -> IF x.n < 0 THEN <<"-">> \o Decimal(-x.n) ELSE Decimal(x.n)
    [] x.kind = "frac" -> Decimal(x.n) \o <<".", "5">>

isDigits(text) ==
  /\ Len(text) > 0
  /\ \A i \in 1..Len(text) : \E d \in 1..Len(DigitChars) : DigitChars[d] = text[i]

RECURSIVE DigitsValue(_, _)
DigitsValue(text, acc) ==
  IF text = <<>> THEN acc
  ELSE DigitsValue(Tail(text),
                   acc * Len(DigitChars)
                     + ((CHOOSE d \in 1..Len(DigitChars) : DigitChars[d] = Head(text)) - 1))

\* Number(prop): the empty string is 0, a decimal numeral its value, any
\* other text read here NaN
StringToNumber(text) ==
  LET negative == text # <<>> /\ Head(text) = "-"
      body == IF negative THEN Tail(text) ELSE text
      whole == IF Len(body) > 2 THEN SubSeq(body, 1, Len(body) - 2) ELSE <<>>
  IN IF text = <<>> THEN Whole(0)
     ELSE IF isDigits(body)
       THEN Whole(IF negative THEN -DigitsValue(body, 0) ELSE DigitsValue(body, 0))
     ELSE IF ~negative /\ isDigits(whole) /\ SubSeq(body, Len(body) - 1, Len(body)) = <<".", "5">>
       THEN Frac(DigitsValue(whole, 0))
     ELSE NaN

\* items_[index]
arrayRead(its, index) ==
  IF isInteger(index) /\ ~isNegative(index) /\ ~isAtLeast(index, Len(its))
    THEN At(its, index.n)
    ELSE Undefined

get(its, index) == [items |-> its, ret |-> arrayRead(its, index)]

\* Reflect.get(target, prop, receiver) for the names read here
reflectGet(its, prop) ==
  IF prop = <<"l", "e", "n", "g", "t", "h">> THEN Len(its) ELSE Undefined

\* Mutant: the trap tests the index for truth, so index 0 is not taken for an
\* index.
proxyGet_truthyIndex(its, prop) ==
  LET index == StringToNumber(prop)
  IN [items |-> its,
      ret |-> IF index # NaN /\ index # Whole(0)
                THEN arrayRead(its, index)
                ELSE reflectGet(its, prop)]

\* the get trap of the Proxy the constructor returns, for a string prop
proxyGet(its, prop) ==
  LET index == StringToNumber(prop)
  IN [items |-> its,
      ret |-> IF index # NaN
                THEN arrayRead(its, index)
                ELSE reflectGet(its, prop)]

\* the names other than numbers tried in brackets
StringKeys == {<<>>, <<"l", "e", "n", "g", "t", "h">>, <<"1", "e", "0">>}

\* ------------------------------------------------------------- iterators
\* An array iterator: iterated says that it still refers to the array (it
\* lets go of it when it reports done), nextIndex is the index it reads
\* next. requested tells a held iterator from an empty name; yielded is the
\* list of the values it has handed out so far and atStart the contents of
\* the array when it was requested (neither is read by the iterator).
NoIterator ==
  [requested |-> FALSE, iterated |-> FALSE, nextIndex |-> 0, yielded |-> <<>>,
   atStart |-> <<>>]

Names == {"a", "b"}

NoIterators == [name \in Names |-> NoIterator]

\* Mutant: a new iterator begins behind the first element.
iterator_startsAtSecond(its) ==
  [requested |-> TRUE, iterated |-> TRUE, nextIndex |-> 1, yielded |-> <<>>,
   atStart |-> its]

\* this.items_[Symbol.iterator]()
iterator(its) ==
  [requested |-> TRUE, iterated |-> TRUE, nextIndex |-> 0, yielded |-> <<>>,
   atStart |-> its]

\* Mutant: the iterator reports done one element early.
next_stopsEarly(it, its) ==
  IF ~it.iterated
    THEN [it |-> it, ret |-> [done |-> TRUE]]
    ELSE IF it.nextIndex >= Len(its) - 1
      THEN [it |-> [it EXCEPT !.iterated = FALSE], ret |-> [done |-> TRUE]]
      ELSE [it |-> [it EXCEPT !.nextIndex = @ + 1,
                              !.yielded = Append(@, At(its, it.nextIndex))],
            ret |-> [done |-> FALSE, value |-> At(its, it.nextIndex)]]

\* Mutant: the iterator walks a copy of the array taken when it was requested.
next_overCopy(it, its) ==
  IF ~it.iterated
    THEN [it |-> it, ret |-> [done |-> TRUE]]
    ELSE IF it.nextIndex >= Len(it.atStart)
      THEN [it |-> [it EXCEPT !.iterated = FALSE], ret |-> [done |-> TRUE]]
      ELSE [it |-> [it EXCEPT !.nextIndex = @ + 1,
                              !.yielded = Append(@, At(it.atStart, it.nextIndex))],
            ret |-> [done |-> FALSE, value |-> At(it.atStart, it.nextIndex)]]

\* next() of the array iterator, its being the array as it is at that moment
next(it, its) ==
  IF ~it.iterated
    THEN [it |-> it, ret |-> [done |-> TRUE]]
    ELSE IF it.nextIndex >= Len(its)
      THEN [it |-> [it EXCEPT !.iterated = FALSE], ret |-> [done |-> TRUE]]
      ELSE [it |-> [it EXCEPT !.nextIndex = @ + 1,
                              !.yielded = Append(@, At(its, it.nextIndex))],
            ret |-> [done |-> FALSE, value |-> At(its, it.nextIndex)]]

\* --------------------------------------------------------------- actions
Init ==
  /\ items_ = <<>>
  /\ comparator \in {"asc", "desc"}
  /\ op = "ready"
  /\ arg = <<>>
  /\ ret = <<>>
  /\ old = <<>>
  /\ filtered = NoInstance
  /\ oldFiltered = NoInstance
  /\ iterators = NoIterators
  /\ calls = <<>>
  /\ loop = NoLoop

\* One call of a method, run to completion: r is what the method computed.
\* A method is called when the caller is ready for its next call.
Call(name, a, r) ==
  /\ old' = items_
  /\ op' = name
  /\ arg' = a
  /\ items_' = r.items
  /\ ret' = r.ret
  /\ oldFiltered' = filtered
  /\ filtered' = IF filtered.sameArray THEN [filtered EXCEPT !.items_ = r.items] ELSE filtered
  /\ calls' = IF "calls" \in DOMAIN r THEN r.calls ELSE <<>>
  /\ UNCHANGED <<comparator, iterators, loop>>

Add ==
  /\ op = "ready"
  /\ \E value \in Elements :
     /\ Len(items_) < MaxLen
     /\ Call("add", value, add(items_, value))

AddMultiple ==
  /\ op = "ready"
  /\ \E values \in SeqsUpTo(Elements, Min(MaxBatch, MaxLen - Len(items_))) :
     Call("addMultiple", values, addMultiple(items_, values))

FirstIndexOf ==
  /\ op = "ready"
  /\ \E value \in Probes :
     Call("firstIndexOf", value, [items |-> items_, ret |-> firstIndexOf(items_, value)])

LastIndexOf ==
  /\ op = "ready"
  /\ \E value \in Probes :
     Call("lastIndexOf", value, [items |-> items_, ret |-> lastIndexOf(items_, value)])

RemoveAtIndex ==
  /\ op = "ready"
  /\ \E index \in IndexInputs :
     Call("removeAtIndex", index, removeAtIndex(items_, index))

RemoveAtIndices ==
  /\ op = "ready"
  /\ \E indices \in SeqsUpTo(BulkIndexInputs, MaxIndices) :
     Call("removeAtIndices", indices, removeAtIndices(items_, indices))

RemoveFirst ==
  /\ op = "ready"
  /\ \E value \in Probes :
     Call("removeFirst", value, removeFirst(items_, value))

RemoveLast ==
  /\ op = "ready"
  /\ \E value \in Probes :
     Call("removeLast", value, removeLast(items_, value))

RemoveAll ==
  /\ op = "ready"
  /\ \E value \in Probes :
     Call("removeAll", value, removeAll(items_, value))

RemoveMultiple ==
  /\ op = "ready"
  /\ \E values \in SeqsUpTo(Probes, MaxRemove) :
     Call("removeMultiple", values, removeMultiple(items_, values))

Clear ==
  /\ op = "ready"
  /\ Call("clear", <<>>, clear(items_))

Filter ==
  /\ op = "ready"
  /\ \E predicate \in Predicates :
     Call("filter", predicate, filter(items_, predicate))

FindIndex ==
  /\ op = "ready"
  /\ \E predicate \in Predicates :
     Call("findIndex", predicate, findIndex(items_, predicate))

FindLastIndex ==
  /\ op = "ready"
  /\ \E predicate \in Predicates :
     Call("findLastIndex", predicate, findLastIndex(items_, predicate))

FindIndices ==
  /\ op = "ready"
  /\ \E predicate \in Predicates :
     Call("findIndices", predicate, findIndices(items_, predicate))

Get ==
  /\ op = "ready"
  /\ \E index \in IndexInputs : Call("get", index, get(items_, index))

\* this[index], index a number
Bracket ==
  /\ op = "ready"
  /\ \E index \in IndexInputs :
     Call("bracket", index, proxyGet(items_, NumberToString(index)))

\* this[prop], prop a string
BracketString ==
  /\ op = "ready"
  /\ \E prop \in StringKeys : Call("bracketString", prop, proxyGet(items_, prop))

\* The caller has looked at the result and is ready for its next call; an
\* instance it held from an earlier filter call is let go.
Return ==
  /\ op # "ready"
  /\ op' = "ready"
  /\ arg' = <<>>
  /\ ret' = <<>>
  /\ old' = <<>>
  /\ filtered' = NoInstance
  /\ oldFiltered' = NoInstance
  /\ calls' = <<>>
  /\ UNCHANGED <<items_, comparator, iterators, loop>>

Next ==
  \/ Add
  \/ AddMultiple
  \/ FirstIndexOf
  \/ LastIndexOf
  \/ RemoveAtIndex
  \/ RemoveAtIndices
  \/ RemoveFirst
  \/ RemoveLast
  \/ RemoveAll
  \/ RemoveMultiple
  \/ Clear
  \/ Filter
  \/ FindIndex
  \/ FindLastIndex
  \/ FindIndices
  \/ Get
  \/ Bracket
  \/ BracketString
  \/ Return

Spec == Init /\ [][Next]_vars

\* ------------------------------------------- a filtered instance in use
\* The caller holds on to the instance filter returned for its next call.
Keep ==
  /\ op = "filter"
  /\ op' = "ready"
  /\ filtered' = ret
  /\ arg' = <<>>
  /\ ret' = <<>>
  /\ old' = <<>>
  /\ oldFiltered' = NoInstance
  /\ calls' = <<>>
  /\ UNCHANGED <<items_, comparator, iterators, loop>>

Holding == op = "ready" /\ filtered # NoInstance

\* The array still holds what every held iterator started with.
Undisturbed ==
  \A name \in Names : iterators[name].requested => iterators[name].atStart = items_

\* The caller holds a filtered instance or an iterator and calls a method of
\* this instance; it makes at most one call that changes the contents while
\* it holds an iterator.
Busy ==
  /\ op = "ready"
  /\ filtered # NoInstance \/ iterators # NoIterators
  /\ Undisturbed

\* One call of a method of the held instance: it works on the items_ of that
\* instance, which is the array of this one only if sameArray says so.
CallOnFiltered(name, a, r) ==
  /\ old' = items_
  /\ oldFiltered' = filtered
  /\ op' = name
  /\ arg' = a
  /\ ret' = r.ret
  /\ filtered' = [filtered EXCEPT !.items_ = r.items]
  /\ items_' = IF filtered.sameArray THEN r.items ELSE items_
  /\ calls' = IF "calls" \in DOMAIN r THEN r.calls ELSE <<>>
  /\ UNCHANGED <<comparator, iterators, loop>>

\* the argument lists tried while an instance is held
TwoEqual == {<<value, value>> : value \in Elements}
OneProbe == {<<value>> : value \in Probes}
FewIndices == {<<index>> : index \in BulkIndexInputs} \cup {<<Whole(0), Whole(1)>>}

\* calls on this instance while a filtered one or an iterator is held
ThisAdd ==
  /\ Busy /\ Len(items_) < MaxLen
  /\ \E value \in Elements : Call("add", value, add(items_, value))

ThisAddMultiple ==
  /\ Busy /\ Len(items_) + 2 <= MaxLen
  /\ \E values \in TwoEqual : Call("addMultiple", values, addMultiple(items_, values))

ThisRemoveAtIndex ==
  /\ Busy
  /\ \E index \in IndexInputs : Call("removeAtIndex", index, removeAtIndex(items_, index))

ThisRemoveAtIndices ==
  /\ Busy
  /\ \E indices \in FewIndices :
     Call("removeAtIndices", indices, removeAtIndices(items_, indices))

ThisRemoveFirst ==
  /\ Busy
  /\ \E value \in Probes : Call("removeFirst", value, removeFirst(items_, value))

ThisRemoveLast ==
  /\ Busy
  /\ \E value \in Probes : Call("removeLast", value, removeLast(items_, value))

ThisRemoveAll ==
  /\ Busy
  /\ \E value \in Probes : Call("removeAll", value, removeAll(items_, value))

ThisRemoveMultiple ==
  /\ Busy
  /\ \E values \in OneProbe :
     Call("removeMultiple", values, removeMultiple(items_, values))

ThisClear ==
  /\ Busy
  /\ Call("clear", <<>>, clear(items_))

\* calls on the held instance
FilteredAdd ==
  /\ Holding /\ Len(filtered.items_) < MaxLen
  /\ \E value \in Elements : CallOnFiltered("filtered.add", value, add(filtered.items_, value))

FilteredAddMultiple ==
  /\ Holding /\ Len(filtered.items_) + 2 <= MaxLen
  /\ \E values \in TwoEqual :
     CallOnFiltered("filtered.addMultiple", values, addMultiple(filtered.items_, values))

FilteredRemoveAtIndex ==
  /\ Holding
  /\ \E index \in IndexInputs :
     CallOnFiltered("filtered.removeAtIndex", index, removeAtIndex(filtered.items_, index))

FilteredRemoveAtIndices ==
  /\ Holding
  /\ \E indices \in FewIndices :
     CallOnFiltered("filtered.removeAtIndices", indices, removeAtIndices(filtered.items_, indices))

FilteredRemoveFirst ==
  /\ Holding
  /\ \E value \in Probes :
     CallOnFiltered("filtered.removeFirst", value, removeFirst(filtered.items_, value))

FilteredRemoveLast ==
  /\ Holding
  /\ \E value \in Probes :
     CallOnFiltered("filtered.removeLast", value, removeLast(filtered.items_, value))

FilteredRemoveAll ==
  /\ Holding
  /\ \E value \in Probes :
     CallOnFiltered("filtered.removeAll", value, removeAll(filtered.items_, value))

FilteredRemoveMultiple ==
  /\ Holding
  /\ \E values \in OneProbe :
     CallOnFiltered("filtered.removeMultiple", values, removeMultiple(filtered.items_, values))

FilteredClear ==
  /\ Holding
  /\ CallOnFiltered("filtered.clear", <<>>, clear(filtered.items_))

FilteredOps ==
  {"filtered.add", "filtered.addMultiple", "filtered.removeAtIndex", "filtered.removeAtIndices",
   "filtered.removeFirst", "filtered.removeLast", "filtered.removeAll", "filtered.removeMultiple",
   "filtered.clear"}

\* While no filtered instance is held the calls are those of Next.
Alone ==
  /\ filtered = NoInstance
  /\ Next

NextFilter ==
  \/ Alone
  \/ Keep
  \/ ThisAdd
  \/ ThisAddMultiple
  \/ ThisRemoveAtIndex
  \/ ThisRemoveAtIndices
  \/ ThisRemoveFirst
  \/ ThisRemoveLast
  \/ ThisRemoveAll
  \/ ThisRemoveMultiple
  \/ ThisClear
  \/ FilteredAdd
  \/ FilteredAddMultiple
  \/ FilteredRemoveAtIndex
  \/ FilteredRemoveAtIndices
  \/ FilteredRemoveFirst
  \/ FilteredRemoveLast
  \/ FilteredRemoveAll
  \/ FilteredRemoveMultiple
  \/ FilteredClear
  \/ Return

SpecFilter == Init /\ [][NextFilter]_vars

\* ------------------------------------------------------------- iteration
\* The caller asks for an iterator and holds it under a name; a name already
\* in use is given the new iterator.
Iterate ==
  /\ op = "ready"
  /\ \E name \in Names :
     /\ iterators' = [iterators EXCEPT ![name] = iterator(items_)]
     /\ op' = "iterator"
     /\ arg' = name
     /\ ret' = <<>>
     /\ old' = items_
     /\ UNCHANGED <<items_, comparator, filtered, oldFiltered, calls, loop>>

\* The caller asks a held iterator for its next value.
Advance ==
  /\ op = "ready"
  /\ \E name \in Names :
     /\ iterators[name].requested
     /\ LET r == next(iterators[name], items_)
        IN /\ iterators' = [iterators EXCEPT ![name] = r.it]
           /\ ret' = r.ret
     /\ op' = "next"
     /\ arg' = name
     /\ old' = items_
     /\ UNCHANGED <<items_, comparator, filtered, oldFiltered, calls, loop>>

\* The caller lets go of its iterators.
Release ==
  /\ op = "ready"
  /\ iterators # NoIterators
  /\ iterators' = NoIterators
  /\ UNCHANGED <<items_, comparator, op, arg, ret, old, filtered, oldFiltered, calls,
               loop>>

\* While no iterator is held the calls are those of Next.
NotIterating ==
  /\ iterators = NoIterators
  /\ Next

NextIter ==
  \/ NotIterating
  \/ Iterate
  \/ Advance
  \/ Release
  \/ Return

SpecIter == Init /\ [][NextIter]_vars

\* ------------------------------------ changes during an iteration
\* The caller asks for one iterator while it holds none.
IterateOnce ==
  /\ iterators = NoIterators
  /\ Iterate
  /\ arg' = "a"

NextIterLive ==
  \/ IterateOnce
  \/ Advance
  \/ Release
  \/ ThisAdd
  \/ ThisAddMultiple
  \/ ThisRemoveAtIndex
  \/ ThisRemoveAtIndices
  \/ ThisRemoveFirst
  \/ ThisRemoveLast
  \/ ThisRemoveAll
  \/ ThisRemoveMultiple
  \/ ThisClear
  \/ Return

SpecIterLive == Init /\ [][NextIterLive]_vars

\* ------------------------------------------------------------ properties
\* every pair i < j of its is in comparator order
Sorted(its) == \A i, j \in 1..Len(its) : i < j => Compare(its[i], its[j]) <= 0

TypeOK ==
  /\ items_ \in Seq(Elements)
  /\ Len(items_) <= MaxLen
  /\ comparator \in {"asc", "desc"}

\* indices (0-based) of the elements of its that compare equal to v
EqualIndices(its, v) == {i \in 0..(Len(its) - 1) : Compare(At(its, i), v) = 0}

SetMin(S) == CHOOSE x \in S : \A y \in S : x <= y
SetMax(S) == CHOOSE x \in S : \A y \in S : x >= y

\* its without the element at index i
Without(its, i) == SubSeq(its, 1, i) \o SubSeq(its, i + 2, Len(its))

\* how often e occurs in s
Count(s, e) == Cardinality({i \in 1..Len(s) : s[i] = e})

KeysOf(its) == [i \in 1..Len(its) |-> its[i].key]

\* the elements an addMultiple call put in, read at the indices it returned
InsertedAt(its, indices) == [k \in 1..Len(indices) |-> At(its, indices[k])]

\* C1: after every call of any method the backing array is sorted: every
\* pair of indices i < j satisfies cmp(items[i], items[j]) <= 0.
C1_Sortedness == Sorted(items_)

C1_Witness ==
  /\ op = "removeMultiple"
  /\ Len(old) = MaxLen
  /\ Len(items_) = 2
  /\ items_[1].key # items_[2].key

\* C2 as claimed: an element put in by add never ends up before an equal
\* element that was stored earlier, i.e. no element behind the returned
\* index compares equal to the added value and can be told apart from it.
C2_StableTies ==
  op = "add" =>
    \A j \in (ret + 1)..(Len(items_) - 1) :
      Compare(At(items_, j), arg) = 0 => At(items_, j) = arg

\* C2 as amended: when add(value) finds elements equal to value, the new
\* element goes directly in front of the equal element the binary search
\* stopped at (so it precedes that earlier element), the equal elements stay
\* one contiguous run, and the elements stored before keep their order.
C2_TiesAmended ==
  (op = "add" /\ EqualIndices(old, arg) # {}) =>
    /\ ret \in EqualIndices(old, arg)
    /\ At(items_, ret) = arg
    /\ At(items_, ret + 1) = At(old, ret)
    /\ Compare(At(items_, ret + 1), arg) = 0
    /\ Without(items_, ret) = old
    /\ EqualIndices(items_, arg) =
         SetMin(EqualIndices(old, arg))..(SetMax(EqualIndices(old, arg)) + 1)

C2_Witness ==
  /\ op = "add"
  /\ Cardinality(EqualIndices(old, arg)) >= 2
  /\ ret > SetMin(EqualIndices(old, arg))
  /\ At(items_, ret + 1).tag # arg.tag

\* C3: add(value) returns the index at which value now sits; the length
\* grew by one; the elements before that index did not move and those at or
\* behind it moved up by one.
C3_AddReturnsIndex ==
  op = "add" =>
    /\ ret \in 0..Len(old)
    /\ Len(items_) = Len(old) + 1
    /\ At(items_, ret) = arg
    /\ \A i \in 0..(ret - 1) : At(items_, i) = At(old, i)
    /\ \A i \in ret..(Len(old) - 1) : At(items_, i + 1) = At(old, i)

\* the README scenario: (a, b) => b - a, add(3), add(1), add(2) -> 0, 1, 1
C3_Witness ==
  /\ comparator = "desc"
  /\ op = "add"
  /\ arg.key = 2
  /\ ret = 1
  /\ KeysOf(old) = <<3, 1>>
  /\ KeysOf(items_) = <<3, 2, 1>>

\* C4 as claimed: on the array before the insertion, the element directly
\* in front of the returned index compares strictly less than the value and
\* the element at the returned index compares greater or equal.
C4_StrictlyLessBefore ==
  op = "add" =>
    /\ ret > 0 => Compare(At(old, ret - 1), arg) < 0
    /\ ret < Len(old) => Compare(At(old, ret), arg) >= 0

\* C4 as amended: every element in front of the returned index compares
\* less than or equal to the value and every element at or behind it
\* compares greater or equal; "strictly less" holds when no stored element
\* compares equal to the value.
C4_InsertionBounds ==
  op = "add" =>
    /\ ret \in 0..Len(old)
    /\ \A i \in 0..(ret - 1) : Compare(At(old, i), arg) <= 0
    /\ \A i \in ret..(Len(old) - 1) : Compare(At(old, i), arg) >= 0
    /\ EqualIndices(old, arg) = {} =>
         \A i \in 0..(ret - 1) : Compare(At(old, i), arg) < 0

C4_Witness ==
  /\ op = "add"
  /\ ret > 0
  /\ ret < Len(old)
  /\ Compare(At(old, ret - 1), arg) = 0
  /\ Compare(At(old, ret), arg) = 0

\* C5: firstIndexOf(v) is the smallest and lastIndexOf(v) the largest index
\* whose element compares equal to v, the indices between them are exactly
\* the elements equal to v, and both are -1 when there is none.
C5_FirstLastBoundRun ==
  /\ op = "firstIndexOf" =>
       /\ ret = IF EqualIndices(items_, arg) = {} THEN -1
                ELSE SetMin(EqualIndices(items_, arg))
       /\ ret # -1 => EqualIndices(items_, arg) = ret..lastIndexOf(items_, arg)
       /\ ret = -1 => lastIndexOf(items_, arg) = -1
  /\ op = "lastIndexOf" =>
       /\ ret = IF EqualIndices(items_, arg) = {} THEN -1
                ELSE SetMax(EqualIndices(items_, arg))
       /\ ret # -1 => EqualIndices(items_, arg) = firstIndexOf(items_, arg)..ret
       /\ ret = -1 => firstIndexOf(items_, arg) = -1

C5_Witness ==
  /\ op = "firstIndexOf"
  /\ ret = 1
  /\ lastIndexOf(items_, arg) = 3

\* C6: right after add(v), firstIndexOf(v) and lastIndexOf(v) both find an
\* element equal to v, and the index add returned lies between them.
C6_AddThenSearch ==
  op = "add" =>
    LET first == firstIndexOf(items_, arg)
        last == lastIndexOf(items_, arg)
    IN /\ first # -1
       /\ last # -1
       /\ Compare(At(items_, first), arg) = 0
       /\ Compare(At(items_, last), arg) = 0
       /\ first <= ret
       /\ ret <= last

C6_Witness ==
  /\ op = "add"
  /\ firstIndexOf(items_, arg) < ret
  /\ ret < lastIndexOf(items_, arg)

\* C7: addMultiple(v1..vM) returns M strictly ascending indices; the
\* elements at these indices afterwards are the batch in comparator order
\* (sorted, and a rearrangement of the arguments); the length grew by M and
\* the array is sorted.
C7_AddMultipleIndices ==
  op = "addMultiple" =>
    /\ Len(ret) = Len(arg)
    /\ \A k \in 1..Len(ret) : ret[k] \in 0..(Len(items_) - 1)
    /\ \A k \in 1..(Len(ret) - 1) : ret[k] < ret[k + 1]
    /\ Len(items_) = Len(old) + Len(arg)
    /\ Sorted(items_)
    /\ Sorted(InsertedAt(items_, ret))
    /\ \A e \in Elements : Count(InsertedAt(items_, ret), e) = Count(arg, e)
    /\ InsertedAt(items_, ret) = sort(arg)

C7_Witness ==
  /\ op = "addMultiple"
  /\ Len(arg) = 3
  /\ Len(old) = 1
  /\ KeysOf(arg) # KeysOf(sort(arg))
  /\ ret[1] = 0
  /\ ret[3] = 3

\* C8: batch values of one addMultiple call that compare equal end up in
\* the array in the order in which they were passed.
C8_BatchTiesKeepOrder ==
  op = "addMultiple" =>
    \A k \in Keys :
      SelectSeq(InsertedAt(items_, ret), LAMBDA e : e.key = k)
        = SelectSeq(arg, LAMBDA e : e.key = k)

C8_Witness ==
  /\ op = "addMultiple"
  /\ Len(arg) = 3
  /\ arg[1].key = arg[3].key
  /\ arg[1].tag # arg[3].tag
  /\ Compare(arg[2], arg[1]) < 0
  /\ EqualIndices(old, arg[1]) # {}

\* C9: addMultiple() and removeMultiple() without arguments return an
\* empty list and leave the contents unchanged.
C9_EmptyBatchNoOp ==
  (op \in {"addMultiple", "removeMultiple"} /\ Len(arg) = 0) =>
    /\ ret = <<>>
    /\ items_ = old

C9_Witness ==
  /\ op = "removeMultiple"
  /\ Len(arg) = 0
  /\ Len(items_) = 3

\* C10: removeAtIndex(index) returns -1 and changes nothing when index is
\* fractional, NaN, negative or >= length; otherwise it returns index and
\* the array is the old one without the element at index.
C10_RemoveAtIndex ==
  op = "removeAtIndex" =>
    IF arg.kind # "int" \/ arg.n < 0 \/ arg.n >= Len(old)
    THEN ret = -1 /\ items_ = old
    ELSE /\ ret = arg.n
         /\ Len(items_) = Len(old) - 1
         /\ items_ = Without(old, arg.n)

C10_Witness ==
  /\ op = "removeAtIndex"
  /\ arg = Frac(1)
  /\ Len(old) = 3
  /\ ret = -1

\* its without the elements at the indices in V
KeepExcept(its, V) ==
  LET positions == [i \in 1..Len(its) |-> i - 1]
      kept == SelectSeq(positions, LAMBDA i : i \notin V)
  IN [k \in 1..Len(kept) |-> At(its, kept[k])]

\* s lists exactly the members of the set V, largest first
ListsDescending(s, V) ==
  /\ Len(s) = Cardinality(V)
  /\ {s[k] : k \in 1..Len(s)} = V
  /\ \A k \in 1..(Len(s) - 1) : s[k] > s[k + 1]

\* the arguments of a removeAtIndices call that are indices of its
ValidIndices(its, indices) ==
  {indices[k].n : k \in {j \in 1..Len(indices) :
      indices[j].kind = "int" /\ indices[j].n >= 0 /\ indices[j].n < Len(its)}}

\* the indices of the elements of its that compare equal to one of values
EqualToAny(its, values) == UNION {EqualIndices(its, values[k]) : k \in 1..Len(values)}

\* C11: removeAtIndices removes exactly the elements at the distinct
\* arguments that are integers in [0, length), keeps the others in order,
\* and returns those positions, each once, in strictly descending order;
\* negative, fractional, NaN and too large arguments are ignored.
C11_RemoveAtIndices ==
  op = "removeAtIndices" =>
    /\ items_ = KeepExcept(old, ValidIndices(old, arg))
    /\ ListsDescending(ret, ValidIndices(old, arg))
    /\ Len(items_) = Len(old) - Cardinality(ValidIndices(old, arg))

C11_Witness ==
  /\ op = "removeAtIndices"
  /\ Len(old) = 3
  /\ arg = <<Whole(0), Whole(1)>>
  /\ ret = <<1, 0>>
  /\ items_ = <<old[3]>>

\* C12: removeFirst(v) returns and leaves what removeAtIndex(firstIndexOf(v))
\* does, removeLast(v) what removeAtIndex(lastIndexOf(v)) does: when v is
\* present exactly the first (the last) element of its run is removed and
\* its former index is returned.
C12_RemoveFirstLast ==
  /\ op = "removeFirst" =>
       /\ ret = removeAtIndex(old, Whole(firstIndexOf(old, arg))).ret
       /\ items_ = removeAtIndex(old, Whole(firstIndexOf(old, arg))).items
       /\ EqualIndices(old, arg) # {} =>
            /\ ret = SetMin(EqualIndices(old, arg))
            /\ items_ = Without(old, ret)
  /\ op = "removeLast" =>
       /\ ret = removeAtIndex(old, Whole(lastIndexOf(old, arg))).ret
       /\ items_ = removeAtIndex(old, Whole(lastIndexOf(old, arg))).items
       /\ EqualIndices(old, arg) # {} =>
            /\ ret = SetMax(EqualIndices(old, arg))
            /\ items_ = Without(old, ret)

C12_Witness ==
  /\ op = "removeFirst"
  /\ EqualIndices(old, arg) = {1, 2}
  /\ At(old, 1) # At(old, 2)
  /\ ret = 1
  /\ Len(items_) = Len(old) - 1

\* C13: removeAll(v) removes every element equal to v and nothing else,
\* returns their former indices from lastIndexOf(v) down to firstIndexOf(v),
\* and firstIndexOf(v) right after the call is -1.
C13_RemoveAll ==
  op = "removeAll" =>
    /\ items_ = KeepExcept(old, EqualIndices(old, arg))
    /\ ListsDescending(ret, EqualIndices(old, arg))
    /\ ret # <<>> =>
         /\ ret[1] = lastIndexOf(old, arg)
         /\ ret[Len(ret)] = firstIndexOf(old, arg)
         /\ \A k \in 1..Len(ret) : ret[k] = ret[1] - (k - 1)
    /\ firstIndexOf(items_, arg) = -1

\* the spec's case [1,3,3,3,5], removeAll(3) -> [3,2,1], within MaxLen
C13_Witness ==
  /\ op = "removeAll"
  /\ comparator = "asc"
  /\ KeysOf(old) = <<1, 2, 2, 3>>
  /\ arg.key = 2
  /\ ret = <<2, 1>>
  /\ KeysOf(items_) = <<1, 3>>

\* C14: removeMultiple removes every element that compares equal to one of
\* the given values (all occurrences) and no other element; values that are
\* not stored are ignored; the remaining elements keep their order.
C14_RemoveMultipleContents ==
  op = "removeMultiple" =>
    /\ items_ = KeepExcept(old, EqualToAny(old, arg))
    /\ \A i \in 0..(Len(items_) - 1) :
         \A k \in 1..Len(arg) : Compare(At(items_, i), arg[k]) # 0

C14_Witness ==
  /\ op = "removeMultiple"
  /\ Len(arg) = 2
  /\ Cardinality(EqualIndices(old, arg[1])) = 2
  /\ EqualIndices(old, arg[2]) = {}
  /\ Len(old) = MaxLen
  /\ Len(items_) = MaxLen - 2

\* C15: removeMultiple returns the positions the removed elements had
\* before the call, each once, in strictly descending order, also when the
\* arguments are unsorted or repeat a value.
C15_RemoveMultipleIndices ==
  op = "removeMultiple" =>
    /\ ListsDescending(ret, EqualToAny(old, arg))
    /\ \A k \in 1..Len(ret) :
         \E j \in 1..Len(arg) : Compare(At(old, ret[k]), arg[j]) = 0

C15_Witness ==
  /\ op = "removeMultiple"
  /\ Len(arg) = 2
  /\ Compare(arg[1], arg[2]) > 0
  /\ EqualIndices(old, arg[1]) # {}
  /\ Cardinality(EqualIndices(old, arg[2])) = 2
  /\ Len(ret) = 3

\* C16: for a value no element compares equal to, firstIndexOf, lastIndexOf,
\* removeFirst and removeLast return -1, removeAll and removeMultiple return
\* an empty list, and the contents are unchanged; also on the empty array.
C16_NotFound ==
  /\ (op \in {"firstIndexOf", "lastIndexOf", "removeFirst", "removeLast"}
        /\ EqualIndices(old, arg) = {}) =>
       ret = -1 /\ items_ = old
  /\ (op = "removeAll" /\ EqualIndices(old, arg) = {}) =>
       ret = <<>> /\ items_ = old
  /\ (op = "removeMultiple" /\ EqualToAny(old, arg) = {}) =>
       ret = <<>> /\ items_ = old

C16_Witness ==
  /\ op = "removeLast"
  /\ Len(old) = MaxLen
  /\ EqualIndices(old, arg) = {}
  /\ ret = -1

\* the indices of its whose element the predicate holds for
Matching(its, predicate) ==
  {i \in 0..(Len(its) - 1) : Applies(predicate, At(its, i), i, its)}

\* s lists exactly the members of the set V, smallest first
ListsAscending(s, V) ==
  /\ Len(s) = Cardinality(V)
  /\ {s[k] : k \in 1..Len(s)} = V
  /\ \A k \in 1..(Len(s) - 1) : s[k] < s[k + 1]

\* C17: filter leaves the source as it was and returns an instance holding
\* exactly the source elements the predicate held for, in their order
\* (hence sorted by the same comparator).
C17_FilterResult ==
  op = "filter" =>
    /\ items_ = old
    /\ ret.items_ = KeepExcept(old, (0..(Len(old) - 1)) \ Matching(old, arg))
    /\ ret.comparator = comparator
    /\ Sorted(ret.items_)

C17_Witness ==
  /\ op = "filter"
  /\ arg.kind = "tagIs"
  /\ Len(old) = MaxLen
  /\ Len(ret.items_) = 2
  /\ At(old, 0).tag = 0
  /\ At(old, 3).tag = 0

\* C19: findIndex returns the smallest and findLastIndex the largest index
\* whose element satisfies the predicate, -1 when there is none; findIndices
\* returns all of them in ascending order, so its first entry is findIndex
\* and its last entry findLastIndex.
C19_FindByPredicate ==
  /\ op = "findIndex" =>
       /\ ret = IF Matching(old, arg) = {} THEN -1 ELSE SetMin(Matching(old, arg))
       /\ items_ = old
  /\ op = "findLastIndex" =>
       /\ ret = IF Matching(old, arg) = {} THEN -1 ELSE SetMax(Matching(old, arg))
       /\ items_ = old
  /\ op = "findIndices" =>
       /\ ListsAscending(ret, Matching(old, arg))
       /\ items_ = old
       /\ ret # <<>> =>
            /\ findIndex(old, arg).ret = ret[1]
            /\ findLastIndex(old, arg).ret = ret[Len(ret)]
       /\ ret = <<>> =>
            /\ findIndex(old, arg).ret = -1
            /\ findLastIndex(old, arg).ret = -1

C19_Witness ==
  /\ op = "findIndices"
  /\ arg.kind = "keyIs"
  /\ Len(old) = MaxLen
  /\ ret = <<1, 2, 3>>

\* C18: the instance filter returned is independent of its source: a later
\* add, addMultiple, remove or clear on it leaves the source as it was, a
\* later change of the source leaves it as it was, and it orders new
\* elements with the source's comparator.
C18_FilterIndependent ==
  oldFiltered # NoInstance =>
    /\ filtered.comparator = comparator
    /\ op \in FilteredOps =>
         /\ items_ = old
         /\ Sorted(filtered.items_)
    /\ op \notin FilteredOps => filtered = oldFiltered

C18_Witness ==
  /\ op = "filtered.add"
  /\ oldFiltered.items_ = old
  /\ Len(old) = 3
  /\ items_ = old
  /\ Len(filtered.items_) = 4
  /\ At(filtered.items_, 2) = arg

C18_WitnessSource ==
  /\ op = "removeAll"
  /\ oldFiltered # NoInstance
  /\ oldFiltered.items_ = old
  /\ Len(old) = 3
  /\ Len(items_) = 1

\* C20: while the array is not changed, every held iterator has handed out
\* the elements from the first one on in index order, whatever the other
\* iterator has done; an iterator just requested has handed out nothing and
\* reads index 0 next; one that has reported done has handed out exactly
\* the elements of the array, as many as its length.
C20_Iteration ==
  /\ \A name \in Names :
       LET it == iterators[name]
       IN it.requested =>
            /\ it.nextIndex <= Len(items_)
            /\ it.yielded = SubSeq(items_, 1, it.nextIndex)
            /\ ~it.iterated =>
                 /\ it.yielded = items_
                 /\ Len(it.yielded) = Len(items_)
  /\ op = "iterator" =>
       /\ iterators[arg].nextIndex = 0
       /\ iterators[arg].yielded = <<>>
  /\ op = "next" =>
       ret.done = (Len(iterators[arg].yielded) = Len(items_) /\ ~iterators[arg].iterated)

C20_Witness ==
  /\ op = "next"
  /\ arg = "a"
  /\ ret.done
  /\ Len(items_) = 3
  /\ iterators["a"].yielded = items_
  /\ iterators["b"].requested
  /\ iterators["b"].nextIndex = 1

C20_WitnessRestart ==
  /\ op = "iterator"
  /\ arg = "a"
  /\ Len(items_) = 3
  /\ iterators["b"].nextIndex = 2

\* C21 as claimed: whatever is called between its steps, an iteration hands
\* out the elements stored when it began, in order, and has handed out all
\* of them, each once, when it reports done.
C21_IterationSnapshot ==
  \A name \in Names :
    LET it == iterators[name]
    IN it.requested =>
         /\ Len(it.yielded) <= Len(it.atStart)
         /\ it.yielded = SubSeq(it.atStart, 1, Len(it.yielded))
         /\ ~it.iterated => it.yielded = it.atStart

\* what holds of an iteration during which no call has changed the contents
C21_UndisturbedIteration ==
  \A name \in Names :
    LET it == iterators[name]
    IN (it.requested /\ it.atStart = items_) =>
         /\ it.yielded = SubSeq(it.atStart, 1, Len(it.yielded))
         /\ ~it.iterated => it.yielded = it.atStart

\* one step of an iteration that has handed out k values so far
C21_Step ==
  (op = "ready" /\ op' = "next") =>
    LET it == iterators[arg']
        after == iterators'[arg']
        k == Len(it.yielded)
    IN IF it.iterated /\ k < Len(items_)
         THEN /\ ~ret'.done
              /\ ret'.value = At(items_, k)
              /\ after.yielded = Append(it.yielded, At(items_, k))
              /\ after.iterated
         ELSE /\ ret'.done
              /\ after.yielded = it.yielded
              /\ ~after.iterated

\* C21, amended: an iteration reads the array as it is at each step. Its
\* step number k + 1 hands out the element then stored at index k, and
\* reports done, for good, when k is not below the length at that moment;
\* so it hands out exactly the elements stored when it began, each once, in
\* order, if no call changes the contents between its steps.
C21_LiveIteration == []C21_UndisturbedIteration /\ [][C21_Step]_vars

C21_Witness ==
  /\ op = "next"
  /\ arg = "a"
  /\ ~ret.done
  /\ Len(iterators["a"].atStart) = 2
  /\ iterators["a"].atStart # items_
  /\ \A i \in 1..2 : iterators["a"].atStart[i] # ret.value
  /\ Len(iterators["a"].yielded) = 2

\* what clear leaves, and what the methods do on an empty array
C22_ClearEmpties ==
  /\ op = "clear" =>
       /\ items_ = <<>>
       /\ Len(items_) = 0
  /\ (old = <<>> /\ op \in {"firstIndexOf", "lastIndexOf"}) =>
       /\ ret = -1
       /\ items_ = <<>>
  /\ (old = <<>> /\ op = "add") =>
       /\ ret = 0
       /\ items_ = <<arg>>
  /\ (old = <<>> /\ op = "addMultiple") =>
       /\ Sorted(items_)
       /\ Len(items_) = Len(arg)
       /\ \A e \in Elements : Count(items_, e) = Count(arg, e)

\* once clear has returned, the instance is in the state of a newly
\* constructed one with the same comparator
C22_FreshAfterClear ==
  (op = "clear" /\ op' = "ready") =>
    /\ Init'
    /\ comparator' = comparator

\* C22: clear leaves length 0 from any state, from the empty one as well;
\* afterwards the instance is as newly constructed with the same comparator:
\* searches return -1, add returns 0 and stores the value alone, addMultiple
\* stores the batch sorted.
C22_Clear == []C22_ClearEmpties /\ [][C22_FreshAfterClear]_vars

C22_Witness ==
  /\ op = "clear"
  /\ Len(old) = 4
  /\ Len(items_) = 0

C22_WitnessEmpty ==
  /\ op = "clear"
  /\ old = <<>>
  /\ items_ = <<>>

\* the values a new iterator hands out until it reports done
RECURSIVE Drain(_, _)
Drain(it, its) ==
  LET r == next(it, its)
  IN IF r.ret.done THEN r.it.yielded ELSE Drain(r.it, its)

\* C23: for every integer i with 0 <= i < length, get(i) and this[i] return
\* the same element, the one an iteration hands out at its step i + 1, and
\* leave the contents as they were.
C23_PositionalRead ==
  (op \in {"get", "bracket"} /\ isInteger(arg) /\ arg.n >= 0 /\ arg.n < Len(old)) =>
    /\ items_ = old
    /\ ret = Drain(iterator(old), old)[arg.n + 1]
    /\ op = "get" => ret = proxyGet(old, NumberToString(arg)).ret
    /\ op = "bracket" => ret = get(old, arg).ret

C23_Witness ==
  /\ op = "bracket"
  /\ arg = Whole(0)
  /\ Len(old) = 3
  /\ ret = At(old, 0)
  /\ ret # At(old, 1)

\* C24: when add(value) finds stored elements that compare equal to value,
\* the index it returns lies in their run, between firstIndexOf(value) and
\* lastIndexOf(value) as measured before the call; when it finds none, the
\* index is the number of stored elements that compare less than value.
C24_TiePlacement ==
  op = "add" =>
    IF \E i \in 0..(Len(old) - 1) : Compare(At(old, i), arg) = 0
      THEN /\ firstIndexOf(old, arg) <= ret
           /\ ret <= lastIndexOf(old, arg)
      ELSE ret = Cardinality({i \in 0..(Len(old) - 1) : Compare(At(old, i), arg) < 0})

\* a run of three equal elements, the returned index not the leftmost
C24_Witness ==
  /\ op = "add"
  /\ firstIndexOf(old, arg) = 0
  /\ lastIndexOf(old, arg) = 2
  /\ ret = 1

C24_WitnessNoTie ==
  /\ op = "add"
  /\ firstIndexOf(old, arg) = -1
  /\ Len(old) = 3
  /\ ret = 2

\* C25: addMultiple takes the insertion index of every value of the sorted
\* batch on the array as it was before the call. In the result the original
\* elements keep their order; value number k of the sorted batch, with
\* insertion index p, sits behind the p original elements in front of that
\* index and the k - 1 batch values before it, so directly in front of the
\* original element of index p once the batch values sharing p have
\* followed, or at the end when p is the original length.
C25_BulkPlacement ==
  op = "addMultiple" =>
    LET sorted == sort(arg)
        p(k) == findInsertionIndex(old, sorted[k])
        inserted == {ret[k] : k \in 1..Len(ret)}
        \* the first position behind i that holds an original element
        nextOriginal(i) ==
          SetMin({j \in (i + 1)..Len(items_) : j \notin inserted})
    IN /\ Len(ret) = Len(sorted)
       /\ KeepExcept(items_, inserted) = old
       /\ \A k \in 1..Len(sorted) :
            /\ ret[k] = p(k) + k - 1
            /\ At(items_, ret[k]) = sorted[k]
            /\ IF p(k) < Len(old)
                 THEN /\ nextOriginal(ret[k]) < Len(items_)
                      /\ At(items_, nextOriginal(ret[k])) = At(old, p(k))
                 ELSE nextOriginal(ret[k]) = Len(items_)

\* two batch values share the insertion index 0 of a one-element array and
\* a third one goes to the end
C25_Witness ==
  /\ op = "addMultiple"
  /\ Len(old) = 1
  /\ Len(arg) = 3
  /\ ret = <<0, 1, 3>>
  /\ findInsertionIndex(old, sort(arg)[1]) = 0
  /\ findInsertionIndex(old, sort(arg)[2]) = 0
  /\ findInsertionIndex(old, sort(arg)[3]) = 1

\* C26: filter calls the predicate once for every stored element, in
\* ascending index order: call number k, counted from 0, is handed the
\* element at index k, the index k and the array, whatever the predicate
\* answers.
C26_PredicateCalls ==
  op = "filter" =>
    /\ Len(calls) = Len(old)
    /\ \A k \in 0..(Len(old) - 1) :
         /\ At(calls, k).value = At(old, k)
         /\ At(calls, k).index = k
         /\ At(calls, k).obj = old

\* the predicate that answers FALSE every time, as in the test
C26_Witness ==
  /\ op = "filter"
  /\ arg.kind = "none"
  /\ Len(old) = 3
  /\ Len(calls) = 3
  /\ At(calls, 2).index = 2
  /\ ret.items_ = <<>>

C26_WitnessSome ==
  /\ op = "filter"
  /\ arg.kind = "oddIndex"
  /\ Len(old) = 4
  /\ Len(calls) = 4
  /\ Len(ret.items_) = 2

\* ------------------------------------------------- the loops, step by step
\* The loops of the methods, one iteration a step. The comparator is any
\* function at all here: what it answers is chosen anew at every call, so
\* answers that contradict each other are covered.
Answers == {-1, 0, 1}

\* Mutant: on an equal element with an equal one in front of it the search
\* keeps mid in the interval.
firstIndexStep_keepsMid(l, comparison, neighbour) ==
  IF l.low <= l.high
  THEN LET mid == (l.low + l.high) \div 2
       IN IF comparison < 0 THEN [l EXCEPT !.low = mid + 1]
          ELSE IF comparison > 0 THEN [l EXCEPT !.high = mid - 1]
          ELSE IF mid = 0 \/ neighbour # 0 THEN [l EXCEPT !.pc = "returned", !.ret = mid]
          ELSE [l EXCEPT !.high = mid]
  ELSE [l EXCEPT !.pc = "returned", !.ret = -1]

\* firstIndexOf: one test of the loop condition and, when it holds, one
\* run of the body; comparison is comparator(items_[mid], value) and
\* neighbour is comparator(items_[mid - 1], value)
firstIndexStep(l, comparison, neighbour) ==
  IF l.low <= l.high
  THEN LET mid == (l.low + l.high) \div 2
       IN IF comparison < 0 THEN [l EXCEPT !.low = mid + 1]
          ELSE IF comparison > 0 THEN [l EXCEPT !.high = mid - 1]
          ELSE IF mid = 0 \/ neighbour # 0 THEN [l EXCEPT !.pc = "returned", !.ret = mid]
          ELSE [l EXCEPT !.high = mid - 1]
  ELSE [l EXCEPT !.pc = "returned", !.ret = -1]

\* lastIndexOf; neighbour is comparator(items_[mid + 1], value)
lastIndexStep(l, comparison, neighbour) ==
  IF l.low <= l.high
  THEN LET mid == (l.low + l.high) \div 2
       IN IF comparison < 0 THEN [l EXCEPT !.low = mid + 1]
          ELSE IF comparison > 0 THEN [l EXCEPT !.high = mid - 1]
          ELSE IF mid = l.length - 1 \/ neighbour # 0
            THEN [l EXCEPT !.pc = "returned", !.ret = mid]
          ELSE [l EXCEPT !.low = mid + 1]
  ELSE [l EXCEPT !.pc = "returned", !.ret = -1]

\* findInsertionIndex
findInsertionStep(l, comparison) ==
  IF l.low <= l.high
  THEN LET mid == (l.low + l.high) \div 2
       IN IF comparison < 0 THEN [l EXCEPT !.low = mid + 1]
          ELSE IF comparison > 0 THEN [l EXCEPT !.high = mid - 1]
          ELSE [l EXCEPT !.pc = "returned", !.ret = mid]
  ELSE [l EXCEPT !.pc = "returned", !.ret = l.low]

\* the loop of removeAll that marks the run from firstIndex on; comparison
\* is comparator(value, items_[subindex])
markStep(l, comparison) ==
  IF l.subindex < l.length
  THEN IF l.subindex > l.firstIndex /\ comparison # 0
         THEN [l EXCEPT !.pc = "returned"]
         ELSE [l EXCEPT !.subindex = @ + 1]
  ELSE [l EXCEPT !.pc = "returned"]

\* removeMultiple: the same loop for one value after the other; remaining
\* counts the values not yet begun and index is what firstIndexOf answers
\* for the next one
markEachStep(l, comparison, index) ==
  LET nextValue ==
        IF l.remaining = 0 THEN [l EXCEPT !.pc = "returned"]
        ELSE [l EXCEPT !.remaining = @ - 1, !.firstIndex = index,
                       !.subindex = IF index = -1 THEN l.length ELSE index]
  IN IF l.subindex < l.length
     THEN IF l.subindex > l.firstIndex /\ comparison # 0
            THEN nextValue
            ELSE [l EXCEPT !.subindex = @ + 1]
     ELSE nextValue

\* the loop of removeAtIndices over the array
removeAtIndicesStep(l) ==
  IF l.subindex < l.length
  THEN [l EXCEPT !.subindex = @ + 1]
  ELSE [l EXCEPT !.pc = "returned"]

\* the rebuilding loop of addMultiple, index running up to originalLength
rebuildStep(l) ==
  IF l.index <= l.originalLength
  THEN [l EXCEPT !.index = @ + 1]
  ELSE [l EXCEPT !.pc = "returned"]

Searches == {"firstIndexOf", "lastIndexOf", "findInsertionIndex"}

\* A method is entered on the array as it is; iterations counts the steps
\* its loop has taken.
EnterSearch ==
  /\ loop.pc = "idle"
  /\ \E method \in Searches :
     loop' = [method |-> method, pc |-> "loop", low |-> 0, high |-> Len(items_) - 1,
              length |-> Len(items_), ret |-> -1, iterations |-> 0]
  /\ UNCHANGED <<items_, comparator, op, arg, ret, old, filtered, oldFiltered,
                 iterators, calls>>

\* removeAll after its firstIndexOf has answered firstIndex (with -1 it
\* returns without entering the loop)
EnterRemoveAll ==
  /\ loop.pc = "idle"
  /\ \E firstIndex \in -1..(Len(items_) - 1) :
     loop' = [method |-> "removeAll",
              pc |-> IF firstIndex = -1 THEN "returned" ELSE "loop",
              firstIndex |-> firstIndex, subindex |-> firstIndex,
              length |-> Len(items_), iterations |-> 0]
  /\ UNCHANGED <<items_, comparator, op, arg, ret, old, filtered, oldFiltered,
                 iterators, calls>>

EnterRemoveMultiple ==
  /\ loop.pc = "idle"
  /\ \E count \in 0..MaxRemove :
     loop' = [method |-> "removeMultiple", pc |-> "loop", remaining |-> count,
              firstIndex |-> -1, subindex |-> Len(items_), length |-> Len(items_),
              iterations |-> 0]
  /\ UNCHANGED <<items_, comparator, op, arg, ret, old, filtered, oldFiltered,
                 iterators, calls>>

EnterRemoveAtIndices ==
  /\ loop.pc = "idle"
  /\ loop' = [method |-> "removeAtIndices", pc |-> "loop", subindex |-> 0,
              length |-> Len(items_), iterations |-> 0]
  /\ UNCHANGED <<items_, comparator, op, arg, ret, old, filtered, oldFiltered,
                 iterators, calls>>

EnterAddMultiple ==
  /\ loop.pc = "idle"
  /\ loop' = [method |-> "addMultiple", pc |-> "loop", index |-> 0,
              originalLength |-> Len(items_), iterations |-> 0]
  /\ UNCHANGED <<items_, comparator, op, arg, ret, old, filtered, oldFiltered,
                 iterators, calls>>

SearchStep ==
  /\ loop.pc = "loop"
  /\ loop.method \in Searches
  /\ \E comparison \in Answers, neighbour \in Answers :
     LET stepped ==
           CASE loop.method = "firstIndexOf" -> firstIndexStep(loop, comparison, neighbour)
             [] loop.method = "lastIndexOf" -> lastIndexStep(loop, comparison, neighbour)
             [] loop.method = "findInsertionIndex" -> findInsertionStep(loop, comparison)
     IN loop' = [stepped EXCEPT !.iterations = @ + 1]
  /\ UNCHANGED <<items_, comparator, op, arg, ret, old, filtered, oldFiltered,
                 iterators, calls>>

MarkStep ==
  /\ loop.pc = "loop"
  /\ loop.method = "removeAll"
  /\ \E comparison \in Answers :
     loop' = [markStep(loop, comparison) EXCEPT !.iterations = @ + 1]
  /\ UNCHANGED <<items_, comparator, op, arg, ret, old, filtered, oldFiltered,
                 iterators, calls>>

MarkEachStep ==
  /\ loop.pc = "loop"
  /\ loop.method = "removeMultiple"
  /\ \E comparison \in Answers, index \in -1..(Len(items_) - 1) :
     loop' = [markEachStep(loop, comparison, index) EXCEPT !.iterations = @ + 1]
  /\ UNCHANGED <<items_, comparator, op, arg, ret, old, filtered, oldFiltered,
                 iterators, calls>>

RemoveAtIndicesStep ==
  /\ loop.pc = "loop"
  /\ loop.method = "removeAtIndices"
  /\ loop' = [removeAtIndicesStep(loop) EXCEPT !.iterations = @ + 1]
  /\ UNCHANGED <<items_, comparator, op, arg, ret, old, filtered, oldFiltered,
                 iterators, calls>>

RebuildStep ==
  /\ loop.pc = "loop"
  /\ loop.method = "addMultiple"
  /\ loop' = [rebuildStep(loop) EXCEPT !.iterations = @ + 1]
  /\ UNCHANGED <<items_, comparator, op, arg, ret, old, filtered, oldFiltered,
                 iterators, calls>>

\* The method has returned.
Leave ==
  /\ loop.pc = "returned"
  /\ loop' = NoLoop
  /\ UNCHANGED <<items_, comparator, op, arg, ret, old, filtered, oldFiltered,
                 iterators, calls>>

LoopStep ==
  \/ SearchStep
  \/ MarkStep
  \/ MarkEachStep
  \/ RemoveAtIndicesStep
  \/ RebuildStep

\* the arrays the loops are followed on: the sorted ones of up to MaxLen
\* elements
InitLoops ==
  /\ comparator \in {"asc", "desc"}
  /\ items_ \in {s \in SeqsUpTo(Probes, MaxLen) : Sorted(s)}
  /\ op = "ready"
  /\ arg = <<>>
  /\ ret = <<>>
  /\ old = <<>>
  /\ filtered = NoInstance
  /\ oldFiltered = NoInstance
  /\ iterators = NoIterators
  /\ calls = <<>>
  /\ loop = NoLoop

NextLoops ==
  \/ EnterSearch
  \/ EnterRemoveAll
  \/ EnterRemoveMultiple
  \/ EnterRemoveAtIndices
  \/ EnterAddMultiple
  \/ SearchStep
  \/ MarkStep
  \/ MarkEachStep
  \/ RemoveAtIndicesStep
  \/ RebuildStep
  \/ Leave

\* A method that is in a loop goes on with it: nothing suspends it.
SpecLoops == InitLoops /\ [][NextLoops]_vars /\ WF_vars(LoopStep)

\* what is left to a loop: the width of [low, high] for a search, the
\* indices up to the bound for a scan
Left(l) ==
  CASE l.method \in Searches -> l.high - l.low + 1
    [] l.method = "removeAll" -> l.length - l.subindex
    [] l.method = "removeMultiple" ->
         l.remaining * (l.length + 1) + (l.length - l.subindex)
    [] l.method = "removeAtIndices" -> l.length - l.subindex
    [] l.method = "addMultiple" -> l.originalLength - l.index + 1

\* an iteration that does not return leaves strictly less, and never less
\* than nothing
C27_Shrinks ==
  (loop.pc = "loop" /\ loop'.pc = "loop") =>
    /\ Left(loop') < Left(loop)
    /\ Left(loop') >= 0

\* C27: whatever the comparator answers, every iteration of the search
\* loops of firstIndexOf, lastIndexOf and findInsertionIndex that does not
\* return shrinks [low, high], the scans of removeAll, removeMultiple,
\* removeAtIndices and addMultiple move on towards their bound, and every
\* loop that was entered returns.
C27_Terminates ==
  /\ [][C27_Shrinks]_vars
  /\ (loop.pc = "loop") ~> (loop.pc = "returned")

\* firstIndexOf on four elements met an equal element with an equal one in
\* front of it, went on to the left and returned
C27_Witness ==
  /\ loop.method = "firstIndexOf"
  /\ loop.pc = "returned"
  /\ loop.length = 4
  /\ loop.ret = 0
  /\ loop.high = 0

\* the orders in which n values can be taken
Orders(n) == {f \in [1..n -> 1..n] : \A i, j \in 1..n : f[i] = f[j] => i = j}

\* its after add(values[order[1]]), add(values[order[2]]), ...
RECURSIVE AddedInOrder(_, _, _, _)
AddedInOrder(its, values, order, k) ==
  IF k > Len(values) THEN its
  ELSE AddedInOrder(add(its, values[order[k]]).items, values, order, k + 1)

\* only identical values compare equal among the elements of tag 0
Plain(its) == \A i \in 1..Len(its) : its[i].tag = 0

\* C28: with a comparator under which only identical values compare equal,
\* addMultiple(v1..vk) leaves the contents that add(v1), ..., add(vk), called
\* one after another in any order, leave.
C28_BulkAddAgrees ==
  (op = "addMultiple" /\ Plain(old) /\ Plain(arg)) =>
    \A order \in Orders(Len(arg)) : AddedInOrder(old, arg, order, 1) = items_

\* a batch that is not in order, with a value stored already and two values
\* that share an insertion index
C28_Witness ==
  /\ op = "addMultiple"
  /\ Plain(old)
  /\ Plain(arg)
  /\ Len(old) = 1
  /\ KeysOf(arg) = <<3, 1, 3>>
  /\ KeysOf(old) = <<1>>
  /\ comparator = "asc"
  /\ KeysOf(items_) = <<1, 1, 3, 3>>

\* its after removeAll(values[1]), removeAll(values[2]), ...
RECURSIVE RemovedInTurn(_, _, _)
RemovedInTurn(its, values, k) ==
  IF k > Len(values) THEN its
  ELSE RemovedInTurn(removeAll(its, values[k]).items, values, k + 1)

\* the indices firstIndexOf(v)..lastIndexOf(v) of the values v that are found
RunsOf(its, values) ==
  UNION {firstIndexOf(its, values[k])..lastIndexOf(its, values[k]) :
           k \in {j \in 1..Len(values) : firstIndexOf(its, values[j]) # -1}}

\* C29: removeMultiple(v1..vk) leaves the contents that removeAll(v1), ...,
\* removeAll(vk), called one after another, leave, and the indices it
\* returns are those of the runs firstIndexOf(vi)..lastIndexOf(vi) on the
\* array before the call.
C29_BulkRemoveAgrees ==
  op = "removeMultiple" =>
    /\ items_ = RemovedInTurn(old, arg, 1)
    /\ {ret[k] : k \in 1..Len(ret)} = RunsOf(old, arg)

\* two values, each with a run of two, the second run reaching the end
C29_Witness ==
  /\ op = "removeMultiple"
  /\ Len(arg) = 2
  /\ Len(old) = 4
  /\ firstIndexOf(old, arg[1]) = 2
  /\ lastIndexOf(old, arg[1]) = 3
  /\ firstIndexOf(old, arg[2]) = 0
  /\ lastIndexOf(old, arg[2]) = 1
  /\ ret = <<3, 2, 1, 0>>
  /\ items_ = <<>>

====
